---- MODULE Spec2Model ----
(***************************************************************************)
(* State-machine model of the orthtree library (src/src/orthtree):         *)
(* Box predicates (box.h), Node / BiSection storage with the split and     *)
(* merge policy (node.h) and the Tree facade with its registry             *)
(* (orthtree.h).                                                           *)
(*                                                                         *)
(* Coordinates are floating point in the source.  The model uses integer   *)
(* coordinates on the region [RegionLo, RegionHi]^DIM; every midpoint the   *)
(* code computes on the modelled inputs is then an integer, so the          *)
(* arithmetic (a + b) / 2 is exact in both (see MidExact).  SpecUlp runs    *)
(* the tree on consecutive floats instead, where midpoints are rounded      *)
(* (see Avg).                                                               *)
(*                                                                         *)
(* Iteration over std::unordered_map has an unspecified order; where the    *)
(* order can change the result (redistribution of a bucket at a split) the  *)
(* operators return the SET of results over all orders.                     *)
(*                                                                         *)
(* ORTHTREE_DEBUG_ASSERT: with DEBUG_CHECKS the first assertion that does   *)
(* not hold aborts the process; the call is abandoned and assert_failed     *)
(* records its message.  Without DEBUG_CHECKS the code runs on; where the   *)
(* assertion guarded the dereference of a null pointer or of end(), the     *)
(* process is killed by the fault of that dereference (Crash).              *)
(***************************************************************************)
EXTENDS Integers, Sequences, FiniteSets, Bags, TLC

(* ---------------- program constants ---------------- *)
DIM == 2
Low == 0
High == 1
RegionLo == 0
RegionHi == 8

(* ---------------- bounds of the model ---------------- *)
MaxVal == 3
MaxGroupCount == 2
MaxCoord == 3

Values == 1..MaxVal
Axes == 1..DIM          \* axis i of the code is axis i + 1 here

VARIABLES m_root, m_all_values, GROUP_COUNT, SHARED, DEBUG_CHECKS,
          assert_failed, last, m_twin, call, build

vars == <<m_root, m_all_values, GROUP_COUNT, SHARED, DEBUG_CHECKS,
          assert_failed, last, m_twin, call, build>>

(* ---------------- Point / Box ---------------- *)
Min2(a, b) == IF a <= b THEN a ELSE b
Max2(a, b) == IF a >= b THEN a ELSE b

\* (variant of Box that keeps the corners in the order given)
BoxUnordered(pnt1, pnt2) == [min |-> pnt1, max |-> pnt2]

\* Box(pnt1, pnt2): per-axis std::minmax
Box(pnt1, pnt2) ==
    [min |-> [i \in Axes |-> Min2(pnt1[i], pnt2[i])],
     max |-> [i \in Axes |-> Max2(pnt1[i], pnt2[i])]]

\* Box(pnt): zero-volume box
PointBox(pnt) == [min |-> pnt, max |-> pnt]

\* (a + b) / 2 in TCoord = float.  An even sum is halved exactly.  An odd sum
\* arises only under SpecUlp, where the coordinate c stands for the float
\* 2^23 + c: the floats from 2^23 to 2^24 are the integers, the sum of two of
\* them lies between 2^24 and 2^25, where only the even integers are floats,
\* so an odd sum is rounded to the neighbour with the even significand (the
\* multiple of 4) before the exact division by 2: the half is rounded to the
\* even integer next to it.
Avg(a, b) ==
    LET s == a + b
    IN  IF s % 2 = 0 THEN s \div 2
        ELSE IF ((s - 1) \div 2) % 2 = 0 THEN (s - 1) \div 2
        ELSE (s + 1) \div 2

\* Point::Mid(pnt1, pnt2, coord_index)
Mid(pnt1, pnt2, i) == Avg(pnt1[i], pnt2[i])

\* Point::MidTo(pnt_to, x_i)
MidTo(pnt, pnt_to, i) == [pnt EXCEPT ![i] = Avg(pnt[i], pnt_to[i])]

\* Box::PntMid(x)
PntMid(box, i) == Mid(box.min, box.max, i)

\* (variant of Intersect that takes touching boxes as separated)
IntersectOpen(a, b) ==
    \A i \in Axes : ~((a.min[i] >= b.max[i]) \/ (a.max[i] <= b.min[i]))

Intersect(a, b) ==
    \A i \in Axes : ~((a.min[i] > b.max[i]) \/ (a.max[i] < b.min[i]))

\* std::optional<Box>
NullOpt == [has_value |-> FALSE]
Some(box) == [has_value |-> TRUE, value |-> box]

\* (variant of Intersection that gives up when min >= max on an axis)
IntersectionOpen(a, b) ==
    LET inter == [min |-> [i \in Axes |-> Max2(a.min[i], b.min[i])],
                  max |-> [i \in Axes |-> Min2(a.max[i], b.max[i])]]
    IN  IF \E i \in Axes : inter.min[i] >= inter.max[i] THEN NullOpt
        ELSE Some(inter)

\* Box::Intersection
Intersection(a, b) ==
    LET inter == [min |-> [i \in Axes |-> Max2(a.min[i], b.min[i])],
                  max |-> [i \in Axes |-> Min2(a.max[i], b.max[i])]]
    IN  IF \E i \in Axes : inter.min[i] > inter.max[i] THEN NullOpt
        ELSE Some(inter)

Contain(a, other) ==
    \A i \in Axes : ~((a.min[i] > other.min[i]) \/ (a.max[i] < other.max[i]))

\* (variant of ContainStrict that lets the inner box touch the boundary)
ContainStrictLoose(a, other) ==
    \A i \in Axes : ~((a.min[i] > other.min[i]) \/ (a.max[i] < other.max[i]))

ContainStrict(a, other) ==
    \A i \in Axes : ~((a.min[i] >= other.min[i]) \/ (a.max[i] <= other.max[i]))

ContainOrthant(a, other) ==
    \A i \in Axes :
        LET mid == Avg(other.min[i], other.max[i])
        IN  /\ (a.min[i] <= other.min[i]) /\ (a.max[i] >= mid)
            /\ (a.min[i] <= mid) /\ (a.max[i] >= other.max[i])

\* (variant of ContainInOrthant without the midpoint test)
ContainInOrthantNoMid(a, other) ==
    \A i \in Axes :
        ~((other.max[i] >= a.max[i]) \/ (other.min[i] <= a.min[i]))

\* (variant of ContainInOrthant whose midpoint test lets a box that only
\* touches the midpoint pass)
ContainInOrthantOpenMid(a, other) ==
    \A i \in Axes :
        /\ ~((other.max[i] >= a.max[i]) \/ (other.min[i] <= a.min[i]))
        /\ ~((other.min[i] < PntMid(a, i)) /\ (other.max[i] > PntMid(a, i)))

ContainInOrthant(a, other) ==
    \A i \in Axes :
        /\ ~((other.max[i] >= a.max[i]) \/ (other.min[i] <= a.min[i]))
        /\ ~((other.min[i] <= PntMid(a, i)) /\ (other.max[i] >= PntMid(a, i)))

(* ---------------- std::unordered_map helpers ---------------- *)
EmptyMap == <<>>

\* emplace: inserts only when the key is absent
Emplace(m, k, v) ==
    IF k \in DOMAIN m THEN m
    ELSE [x \in (DOMAIN m) \cup {k} |-> IF x = k THEN v ELSE m[x]]

Erase(m, k) == [x \in (DOMAIN m) \ {k} |-> m[x]]

\* values.merge(src): moves the entries of src whose key is not in values;
\* returns the accumulator and what is left in src
MergeInto(values, src) ==
    [x \in (DOMAIN values) \cup (DOMAIN src) |->
        IF x \in DOMAIN values THEN values[x] ELSE src[x]]

MergeLeft(values, src) ==
    [x \in (DOMAIN src) \cap (DOMAIN values) |-> src[x]]

\* all orders in which the keys of a set can be iterated
RECURSIVE Orders(_)
Orders(S) ==
    IF S = {} THEN {<<>>}
    ELSE UNION {{<<x>> \o o : o \in Orders(S \ {x})} : x \in S}

(* ---------------- Node ---------------- *)
\* std::size_t arithmetic on m_values_count; SizeMax stands for 2^64 - 1
SizeMax == 2147483647
Inc(c) == IF c = SizeMax THEN 0 ELSE c + 1
Dec(c) == IF c = 0 THEN SizeMax ELSE c - 1

\* std::unique_ptr<BiSection_t> m_sub_nodes: the empty function stands for nullptr
NullSub == <<>>
IsNull(sub) == DOMAIN sub = {}

\* Node(area, level); the share flag is the NODES_SHARE_VAL template argument
\* and gc the GROUP_COUNT template argument of the node type
Node(area, level, share, gc) ==
    [m_area |-> area, m_level |-> level, share |-> share, gc |-> gc,
     m_bucket |-> EmptyMap, m_values_count |-> 0, m_sub_nodes |-> NullSub]

\* Node_t inside Node is Node<TValue, TCoord, DIM, GROUP_COUNT>: GROUP_COUNT
\* is passed on to the children, the NODES_SHARE_VAL argument is not, children
\* take the default
ChildShare == FALSE

RECURSIVE BiSection(_, _, _, _)

\* (variant of BiSection whose High section gets the low half too)
BiSectionLowTwice(area, level, X, gc) ==
    LET lowArea  == Box(area.min, MidTo(area.max, area.min, X))
    IN  IF X = 1
        THEN [o \in {Low, High} |-> Node(lowArea, level, ChildShare, gc)]
        ELSE [o \in {Low, High} |-> BiSection(lowArea, level, X - 1, gc)]

BiSection(area, level, X, gc) ==
    LET lowArea  == Box(area.min, MidTo(area.max, area.min, X))
        highArea == Box(MidTo(area.min, area.max, X), area.max)
    IN  IF X = 1
        THEN [o \in {Low, High} |->
                 Node(IF o = Low THEN lowArea ELSE highArea, level, ChildShare, gc)]
        ELSE [o \in {Low, High} |->
                 BiSection(IF o = Low THEN lowArea ELSE highArea, level, X - 1, gc)]

\* Node::FitSection (private, not called by the other members)
FitSection(n, box) ==
    \A i \in Axes :
        LET area_mid == (n.m_area.max[i] - n.m_area.min[i]) \div 2
        IN  (box.max[i] <= area_mid) \/ (box.min[i] >= area_mid)

CanFallDeeper(n, box) ==
    IF n.share THEN ~ContainOrthant(box, n.m_area)
    ELSE ContainInOrthant(n.m_area, box)

NodeClear(n) == [n EXCEPT !.m_bucket = EmptyMap, !.m_sub_nodes = NullSub]

\* Results of the mutating operators: the new structure and what stopped the
\* operator on the way ({} when it returned): the message of the
\* ORTHTREE_DEBUG_ASSERT that aborted, or Crash.
Res(x, e) == [node |-> x, errs |-> e]

\* ORTHTREE_DEBUG_ASSERT(exp, msg): assert(exp) aborts with msg when exp is
\* false and the assertion is compiled in; compiled out it does nothing
Failed(exp, msg) == IF DEBUG_CHECKS /\ ~exp THEN {msg} ELSE {}

\* what stops a sequence of two steps: the first step if it was stopped (the
\* second is then never run), else the second
First(e1, e2) == IF e1 # {} THEN e1 ELSE e2

RECURSIVE NodeAdd(_, _, _), BiSectionAdd(_, _, _, _, _), AddSeq(_, _, _, _)

\* BiSection::Add (both the X > 1 template and the X = 1 specialisation)
BiSectionAdd(sec, X, val, box, area) ==
    LET area_mid == Avg(area.max[X], area.min[X])
        Child(o) == IF X = 1 THEN NodeAdd(sec[o], val, box)
                    ELSE BiSectionAdd(sec[o], X - 1, val, box, area)
        lows  == IF box.min[X] <= area_mid THEN Child(Low)
                 ELSE {Res(sec[Low], {})}
        highs == IF box.max[X] >= area_mid THEN Child(High)
                 ELSE {Res(sec[High], {})}
    IN  {Res([o \in {Low, High} |-> IF o = Low THEN l.node ELSE h.node],
             First(l.errs, h.errs)) : l \in lows, h \in highs}

\* m_sub_nodes->Add for the bucket entries in the order ord
AddSeq(rs, ord, bucket, area) ==
    IF ord = <<>> THEN rs
    ELSE AddSeq(UNION {{Res(r2.node, First(r.errs, r2.errs)) :
                           r2 \in BiSectionAdd(r.node, DIM, Head(ord),
                                               bucket[Head(ord)], area)} :
                       r \in rs},
                Tail(ord), bucket, area)

\* (variant of Redistribute that creates the children at the level of the node)
RedistributeSameLevel(n) ==
    LET movers == {v \in DOMAIN n.m_bucket : CanFallDeeper(n, n.m_bucket[v])}
        fresh  == BiSection(n.m_area, n.m_level, DIM, n.gc)
    IN  UNION {AddSeq({Res(fresh, {})}, ord, n.m_bucket, n.m_area) :
               ord \in Orders(movers)}

\* the "create subdivision and re-distribute" block of Node::Add
Redistribute(n) ==
    LET movers == {v \in DOMAIN n.m_bucket : CanFallDeeper(n, n.m_bucket[v])}
        fresh  == BiSection(n.m_area, n.m_level + 1, DIM, n.gc)
    IN  UNION {AddSeq({Res(fresh, {})}, ord, n.m_bucket, n.m_area) :
               ord \in Orders(movers)}

\* (variant of NodeAdd that leaves the redistributed values in the bucket too)
NodeAddKeepBucket(n, val, box) ==
    LET pre == IF n.share THEN Intersect(n.m_area, box)
               ELSE ContainStrict(n.m_area, box)
        e0  == Failed(pre, "Out of area")
    IN  IF (~CanFallDeeper(n, box))
           \/ ((Cardinality(DOMAIN n.m_bucket) < n.gc)
               /\ (IsNull(n.m_sub_nodes)))
        THEN {Res([n EXCEPT !.m_bucket = Emplace(@, val, box),
                            !.m_values_count = Inc(@)], e0)}
        ELSE LET subs == IF IsNull(n.m_sub_nodes)
                         THEN {[sec |-> r.node, errs |-> r.errs] :
                                  r \in Redistribute(n)}
                         ELSE {[sec |-> n.m_sub_nodes, errs |-> {}]}
             IN  UNION {{Res([n EXCEPT !.m_sub_nodes = r.node,
                                       !.m_values_count = Inc(@)],
                             First(e0, First(s.errs, r.errs))) :
                            r \in BiSectionAdd(s.sec, DIM, val, box, n.m_area)} :
                        s \in subs}

\* Node::Add: the set of results over the iteration orders of the bucket
NodeAdd(n, val, box) ==
    LET pre == IF n.share THEN Intersect(n.m_area, box)
               ELSE ContainStrict(n.m_area, box)
        e0  == Failed(pre, "Out of area")
    IN  IF (~CanFallDeeper(n, box))
           \/ ((Cardinality(DOMAIN n.m_bucket) < n.gc)
               /\ (IsNull(n.m_sub_nodes)))
        THEN {Res([n EXCEPT !.m_bucket = Emplace(@, val, box),
                            !.m_values_count = Inc(@)], e0)}
        ELSE LET stay == [v \in {w \in DOMAIN n.m_bucket :
                                    ~CanFallDeeper(n, n.m_bucket[w])}
                             |-> n.m_bucket[v]]
                 subs == IF IsNull(n.m_sub_nodes)
                         THEN {[sec |-> r.node, bucket |-> stay, errs |-> r.errs] :
                                  r \in Redistribute(n)}
                         ELSE {[sec |-> n.m_sub_nodes, bucket |-> n.m_bucket,
                                errs |-> {}]}
             IN  UNION {{Res([n EXCEPT !.m_bucket = s.bucket,
                                       !.m_sub_nodes = r.node,
                                       !.m_values_count = Inc(@)],
                             First(e0, First(s.errs, r.errs))) :
                            r \in BiSectionAdd(s.sec, DIM, val, box, n.m_area)} :
                        s \in subs}



RECURSIVE NodeGatherAllValuesDeep(_, _), BiSectionGatherAllValuesDeep(_, _, _)

\* (variant of Node::GatherAllValuesDeep that leaves the node's own bucket out)
NodeGatherAllValuesDeepSubsOnly(n, values) ==
    IF ~IsNull(n.m_sub_nodes)
    THEN BiSectionGatherAllValuesDeep(n.m_sub_nodes, DIM, values)
    ELSE Res(values, {})

\* Node::GatherAllValuesDeep(values): node is the accumulator afterwards
NodeGatherAllValuesDeep(n, values) ==
    LET r == IF ~IsNull(n.m_sub_nodes)
             THEN BiSectionGatherAllValuesDeep(n.m_sub_nodes, DIM, values)
             ELSE Res(values, {})
        left == MergeLeft(r.node, n.m_bucket)
    IN  Res(MergeInto(r.node, n.m_bucket),
            First(r.errs, Failed(DOMAIN left = {}, "Doubled elements")))

BiSectionGatherAllValuesDeep(sec, X, values) ==
    LET l == IF X = 1 THEN NodeGatherAllValuesDeep(sec[Low], values)
             ELSE BiSectionGatherAllValuesDeep(sec[Low], X - 1, values)
        h == IF X = 1 THEN NodeGatherAllValuesDeep(sec[High], l.node)
             ELSE BiSectionGatherAllValuesDeep(sec[High], X - 1, l.node)
    IN  Res(h.node, First(l.errs, h.errs))

RECURSIVE NodeDel(_, _, _), BiSectionDel(_, _, _, _, _)

\* The fault of a dereference the code makes without a valid target (a null
\* m_sub_nodes, the end() iterator of m_all_values): the reads go through
\* address 0 and the process is killed by the signal.  It is not the message
\* of an assertion and no build configuration suppresses it.
Crash == "SIGSEGV"

\* ORTHTREE_DEBUG_ASSERT(p != invalid, msg) followed by a dereference of p
\* whose result the code goes on to use (a call through m_sub_nodes, the Box
\* of find(val) passed on to m_root), when p is invalid: the assertion aborts
\* with msg where it is compiled in, otherwise the dereference faults
Deref(msg) == IF DEBUG_CHECKS THEN {msg} ELSE {Crash}

\* (variant of BiSection::Del with the tests of the two sides exchanged)
BiSectionDelSwapped(sec, X, val, box, area) ==
    LET area_mid == Avg(area.max[X], area.min[X])
        Child(o) == IF X = 1 THEN NodeDel(sec[o], val, box)
                    ELSE BiSectionDel(sec[o], X - 1, val, box, area)
        l == IF box.max[X] >= area_mid THEN Child(Low) ELSE Res(sec[Low], {})
        h == IF box.min[X] <= area_mid THEN Child(High) ELSE Res(sec[High], {})
    IN  IF l.errs # {} THEN Res([sec EXCEPT ![Low] = l.node], l.errs)
        ELSE Res([o \in {Low, High} |-> IF o = Low THEN l.node ELSE h.node],
                 h.errs)

\* BiSection::Del
BiSectionDel(sec, X, val, box, area) ==
    LET area_mid == Avg(area.max[X], area.min[X])
        Child(o) == IF X = 1 THEN NodeDel(sec[o], val, box)
                    ELSE BiSectionDel(sec[o], X - 1, val, box, area)
        l == IF box.min[X] <= area_mid THEN Child(Low) ELSE Res(sec[Low], {})
        h == IF box.max[X] >= area_mid THEN Child(High) ELSE Res(sec[High], {})
    IN  IF l.errs # {} THEN Res([sec EXCEPT ![Low] = l.node], l.errs)
        ELSE Res([o \in {Low, High} |-> IF o = Low THEN l.node ELSE h.node],
                 h.errs)

\* (variant of Node::Del that merges only below GROUP_COUNT values)
NodeDelLateMerge(n, val, box) ==
    LET cnt == Dec(n.m_values_count)
    IN  IF cnt < n.gc
        THEN LET g == IF ~IsNull(n.m_sub_nodes)
                      THEN BiSectionGatherAllValuesDeep(n.m_sub_nodes, DIM, n.m_bucket)
                      ELSE Res(n.m_bucket, {})
                 b == Erase(g.node, val)
             IN  Res([n EXCEPT !.m_values_count = cnt,
                               !.m_sub_nodes = NullSub,
                               !.m_bucket = b],
                     First(g.errs, Failed(Cardinality(DOMAIN b) <= n.gc,
                                          "Too many elements in bucket")))
        ELSE IF val \in DOMAIN n.m_bucket
             THEN Res([n EXCEPT !.m_values_count = cnt,
                                !.m_bucket = Erase(@, val)], {})
             ELSE IF IsNull(n.m_sub_nodes)
                  THEN Res([n EXCEPT !.m_values_count = cnt], Deref("No value in node"))
                  ELSE LET r == BiSectionDel(n.m_sub_nodes, DIM, val, box, n.m_area)
                       IN  Res([n EXCEPT !.m_values_count = cnt,
                                         !.m_sub_nodes = r.node], r.errs)

\* Node::Del.  When the value is neither in the bucket nor is there a
\* subdivision the assertion "No value in node" fails; where the assertion
\* is compiled out m_sub_nodes->Del dereferences the null pointer.
NodeDel(n, val, box) ==
    LET cnt == Dec(n.m_values_count)
    IN  IF cnt <= n.gc
        THEN LET g == IF ~IsNull(n.m_sub_nodes)
                      THEN BiSectionGatherAllValuesDeep(n.m_sub_nodes, DIM, n.m_bucket)
                      ELSE Res(n.m_bucket, {})
                 b == Erase(g.node, val)
             IN  Res([n EXCEPT !.m_values_count = cnt,
                               !.m_sub_nodes = NullSub,
                               !.m_bucket = b],
                     First(g.errs, Failed(Cardinality(DOMAIN b) <= n.gc,
                                          "Too many elements in bucket")))
        ELSE IF val \in DOMAIN n.m_bucket
             THEN Res([n EXCEPT !.m_values_count = cnt,
                                !.m_bucket = Erase(@, val)], {})
             ELSE IF IsNull(n.m_sub_nodes)
                  THEN Res([n EXCEPT !.m_values_count = cnt], Deref("No value in node"))
                  ELSE LET r == BiSectionDel(n.m_sub_nodes, DIM, val, box, n.m_area)
                       IN  Res([n EXCEPT !.m_values_count = cnt,
                                         !.m_sub_nodes = r.node], r.errs)

(* ---------------- queries on nodes ---------------- *)
RECURSIVE NodeFindIntersectedBox(_, _), BiSectionFindIntersectedBox(_, _, _)

\* (variant of NodeFindIntersectedBox that scans the bucket only)
NodeFindIntersectedBoxShallow(n, box) ==
    {v \in DOMAIN n.m_bucket : Intersect(box, n.m_bucket[v])}

\* Node::FindIntersected(box, inter): the set inserted into inter
NodeFindIntersectedBox(n, box) ==
    {v \in DOMAIN n.m_bucket : Intersect(box, n.m_bucket[v])}
    \cup (IF ~IsNull(n.m_sub_nodes)
          THEN BiSectionFindIntersectedBox(n.m_sub_nodes, DIM, box) ELSE {})

BiSectionFindIntersectedBox(sec, X, box) ==
    IF X = 1
    THEN NodeFindIntersectedBox(sec[Low], box) \cup NodeFindIntersectedBox(sec[High], box)
    ELSE BiSectionFindIntersectedBox(sec[Low], X - 1, box)
         \cup BiSectionFindIntersectedBox(sec[High], X - 1, box)

\* an unordered pair of values, as pushed by FindIntersected(inter); the
\* order inside a pair and the order of the pairs follow the hash order
PairOf(a, b) == {a, b}

RECURSIVE NodePairCount(_, _), BiSectionPairCount(_, _, _)

\* (variant of NodePairCount that skips the test of the bucket values against
\* the subdivision)
NodePairCountNoCross(n, p) ==
    LET B == n.m_bucket
        inBucket == IF \E a \in DOMAIN B : \E b \in DOMAIN B :
                          a # b /\ p = PairOf(a, b) /\ Intersect(B[a], B[b])
                    THEN 1 ELSE 0
        deep == IF IsNull(n.m_sub_nodes) THEN 0
                ELSE BiSectionPairCount(n.m_sub_nodes, DIM, p)
    IN  inBucket + deep

\* Node::FindIntersected(inter): how many times the pair p is pushed
NodePairCount(n, p) ==
    LET B == n.m_bucket
        inBucket == IF \E a \in DOMAIN B : \E b \in DOMAIN B :
                          a # b /\ p = PairOf(a, b) /\ Intersect(B[a], B[b])
                    THEN 1 ELSE 0
        cross == IF IsNull(n.m_sub_nodes) THEN 0
                 ELSE Cardinality({<<a, w>> \in
                          UNION {{<<a2, w2>> : w2 \in BiSectionFindIntersectedBox(
                                                  n.m_sub_nodes, DIM, B[a2])} :
                                 a2 \in DOMAIN B} : p = PairOf(a, w)})
        deep == IF IsNull(n.m_sub_nodes) THEN 0
                ELSE BiSectionPairCount(n.m_sub_nodes, DIM, p)
    IN  inBucket + cross + deep

BiSectionPairCount(sec, X, p) ==
    IF X = 1 THEN NodePairCount(sec[Low], p) + NodePairCount(sec[High], p)
    ELSE BiSectionPairCount(sec[Low], X - 1, p) + BiSectionPairCount(sec[High], X - 1, p)

AllPairs == {PairOf(a, b) : a \in Values, b \in Values}

RECURSIVE NodeTraverseDeep(_), BiSectionTraverseDeep(_, _)

\* Node::TraverseDeep: the nodes in the order of their on_level_cb call, each
\* with the (value, box) entries its on_value_cb calls report (these come in
\* hash order, so they are kept as a map)
NodeTraverseDeep(n) ==
    <<[area |-> n.m_area, lvl |-> n.m_level, values |-> n.m_bucket]>>
    \o (IF IsNull(n.m_sub_nodes) THEN <<>>
        ELSE BiSectionTraverseDeep(n.m_sub_nodes, DIM))

BiSectionTraverseDeep(sec, X) ==
    IF X = 1 THEN NodeTraverseDeep(sec[Low]) \o NodeTraverseDeep(sec[High])
    ELSE BiSectionTraverseDeep(sec[Low], X - 1) \o BiSectionTraverseDeep(sec[High], X - 1)

\* the calls of on_level_cb(area, lvl) and on_value_cb(box, val, lvl)
LevelCb(area, lvl) == [cb |-> "level", area |-> area, lvl |-> lvl]
ValueCb(box, val, lvl) == [cb |-> "value", box |-> box, val |-> val, lvl |-> lvl]

RECURSIVE NodeTraverseCalls(_), BiSectionTraverseCalls(_, _)

\* (variant of NodeTraverseCalls that visits the subdivision before the node)
NodeTraverseCallsPost(n) ==
    {rest \o <<LevelCb(n.m_area, n.m_level)>>
        \o [i \in 1..Len(ord) |-> ValueCb(n.m_bucket[ord[i]], ord[i], n.m_level)] :
       ord \in Orders(DOMAIN n.m_bucket),
       rest \in (IF IsNull(n.m_sub_nodes) THEN {<<>>}
                 ELSE BiSectionTraverseCalls(n.m_sub_nodes, DIM))}

\* Node::TraverseDeep as the sequence of callback calls it makes; the bucket
\* is iterated in hash order, so this is the set of the possible sequences
NodeTraverseCalls(n) ==
    {<<LevelCb(n.m_area, n.m_level)>>
        \o [i \in 1..Len(ord) |-> ValueCb(n.m_bucket[ord[i]], ord[i], n.m_level)]
        \o rest :
       ord \in Orders(DOMAIN n.m_bucket),
       rest \in (IF IsNull(n.m_sub_nodes) THEN {<<>>}
                 ELSE BiSectionTraverseCalls(n.m_sub_nodes, DIM))}

BiSectionTraverseCalls(sec, X) ==
    IF X = 1
    THEN {l \o h : l \in NodeTraverseCalls(sec[Low]),
                   h \in NodeTraverseCalls(sec[High])}
    ELSE {l \o h : l \in BiSectionTraverseCalls(sec[Low], X - 1),
                   h \in BiSectionTraverseCalls(sec[High], X - 1)}

(* ---------------- Tree ---------------- *)
Region == Box([i \in Axes |-> RegionLo], [i \in Axes |-> RegionHi])

\* Tree(area): root at level 1, empty registry
NewTree(area, share) ==
    [m_root |-> Node(area, 1, share, GROUP_COUNT), m_all_values |-> EmptyMap]

\* outcome of a Tree call: the tree afterwards and what stopped the call: the
\* messages of the failed assertions or Crash ({} when the call returned)
Out(t, f) == [t |-> t, fail |-> f]

TreeArea(t) == t.m_root.m_area
TreeContains(t, val) == val \in DOMAIN t.m_all_values
TreeGetAllValues(t) == t.m_all_values

\* Tree::GetBox
TreeGetBoxPre(t, val) == TreeContains(t, val)
TreeGetBox(t, val) == t.m_all_values[val]

\* Tree::Add
TreeAdd(t, val, box) ==
    IF DEBUG_CHECKS /\ ~Contain(TreeArea(t), box) THEN {Out(t, {"Out of area"})}
    ELSE IF DEBUG_CHECKS /\ TreeContains(t, val)
         THEN {Out(t, {"Already have value"})}
    ELSE {IF r.errs # {} THEN Out(t, r.errs)
          ELSE Out([m_root |-> r.node,
                    m_all_values |-> Emplace(t.m_all_values, val, box)], {}) :
          r \in NodeAdd(t.m_root, val, box)}

\* (variant of TreeDel that leaves the registry entry in place)
TreeDelNoErase(t, val) ==
    IF ~TreeContains(t, val) THEN Out(t, Deref("No such value"))
    ELSE LET r == NodeDel(t.m_root, val, TreeGetBox(t, val))
         IN  IF r.errs # {} THEN Out(t, r.errs)
             ELSE Out([m_root |-> r.node, m_all_values |-> t.m_all_values], {})

\* (variant of TreeDel that tests the precondition after m_root.Del)
TreeDelLateCheck(t, val) ==
    LET box == IF TreeContains(t, val) THEN TreeGetBox(t, val) ELSE TreeArea(t)
        r   == NodeDel(t.m_root, val, box)
    IN  IF ~TreeContains(t, val)
        THEN Out([t EXCEPT !.m_root = r.node], Deref("No such value"))
        ELSE IF r.errs # {} THEN Out(t, r.errs)
             ELSE Out([m_root |-> r.node,
                       m_all_values |-> Erase(t.m_all_values, val)], {})

\* Tree::Del.  On an unregistered value GetBox dereferences end() where the
\* assertion "No such value" is compiled out.
TreeDel(t, val) ==
    IF ~TreeContains(t, val) THEN Out(t, Deref("No such value"))
    ELSE LET r == NodeDel(t.m_root, val, TreeGetBox(t, val))
         IN  IF r.errs # {} THEN Out(t, r.errs)
             ELSE Out([m_root |-> r.node,
                       m_all_values |-> Erase(t.m_all_values, val)], {})

\* (variant of TreeChange that adds the new box without deleting the old entry)
TreeChangeNoDel(t, val, box) ==
    IF DEBUG_CHECKS /\ ~Contain(TreeArea(t), box) THEN {Out(t, {"Out of area"})}
    ELSE IF ~TreeContains(t, val) THEN {Out(t, Deref("No such value"))}
    ELSE {IF r.errs # {} THEN Out(t, r.errs)
          ELSE Out([m_root |-> r.node,
                    m_all_values |-> Emplace(t.m_all_values, val, box)], {}) :
          r \in NodeAdd(t.m_root, val, box)}

\* Tree::Change: Del(val) then Add(val, box)
TreeChange(t, val, box) ==
    IF DEBUG_CHECKS /\ ~Contain(TreeArea(t), box) THEN {Out(t, {"Out of area"})}
    ELSE LET d == TreeDel(t, val)
         IN  IF d.fail # {} THEN {d} ELSE TreeAdd(d.t, val, box)

\* Tree::Clear
TreeClear(t) == [t EXCEPT !.m_root = NodeClear(@)]

\* Tree::FindIntersected(box)
TreeFindIntersectedBox(t, box) == NodeFindIntersectedBox(t.m_root, box)

\* Tree::FindIntersected(val): precondition, the internal self check, result
TreeFindIntersectedValPre(t, val) == TreeContains(t, val)
TreeFindIntersectedValSelf(t, val) ==
    val \in NodeFindIntersectedBox(t.m_root, TreeGetBox(t, val))
TreeFindIntersectedVal(t, val) ==
    NodeFindIntersectedBox(t.m_root, TreeGetBox(t, val)) \ {val}

\* Tree::TraverseDeep
TreeTraverseDeep(t) == NodeTraverseDeep(t.m_root)

\* Tree::TraverseDeep as callback sequences
TreeTraverseCalls(t) == NodeTraverseCalls(t.m_root)

\* Tree::FindIntersected(): the returned vector as a bag of unordered pairs
TreeFindIntersected(t) ==
    [p \in {q \in AllPairs : NodePairCount(t.m_root, q) > 0} |->
        NodePairCount(t.m_root, p)]

(* ---------------- inputs ---------------- *)
Pt(x, y) == <<x, y>>
Boxes ==
    { PointBox(Pt(1, 1)),            \* point, low-low quadrant
      PointBox(Pt(3, 3)),            \* point, same quadrant, other sub-quadrant
      Box(Pt(3, 3), Pt(1, 1)),       \* corners given in reverse order
      Box(Pt(3, 3), Pt(5, 5)),       \* straddles both root midpoints
      Box(Pt(5, 1), Pt(5, 3)),       \* zero width, high-low quadrant, touches the one above
      Box(Pt(0, 0), Pt(8, 8)),       \* the region itself
      Box(Pt(7, 7), Pt(9, 9)) }      \* partly outside the region

QueryBoxes ==
    Boxes \cup { PointBox(Pt(2, 2)), PointBox(Pt(4, 4)),   \* zero volume
                 Box(Pt(9, 9), Pt(10, 10)),                \* wholly outside
                 Box(Pt(5, 3), Pt(9, 9)),                  \* partly outside
                 Box(Pt(0, 4), Pt(8, 4)) }                 \* along a midpoint


(* ---------------- the state machine ---------------- *)
\* last is the name of the last mutating call made ("Tree": the constructor);
\* assert_failed holds the messages of the assertions the last call violated
\* (or Crash) and is non-empty exactly when the process was ended by the call.
Tree == [m_root |-> m_root, m_all_values |-> m_all_values]

\* call is the record of a call of a Box function (SpecBox): its name, the
\* corner points of its arguments and its result
NoCall == [op |-> "none"]

\* m_twin is a second Tree object driven by the same calls (SpecTwin); the
\* other specifications have a single tree
NoTwin == <<>>

Alive == assert_failed = {}

(* ---------------- build configuration (common.h) ---------------- *)
\* what the translation unit defines before it includes the headers:
\* ORTHTREE_DEBUG_CHECKS ("undefined", "0" or "1") and NDEBUG (or not)
BuildConfigs == [checks : {"undefined", "0", "1"}, ndebug : BOOLEAN]

\* a debug build that leaves ORTHTREE_DEBUG_CHECKS alone
DebugBuild == [checks |-> "undefined", ndebug |-> FALSE]
ReleaseBuild == [checks |-> "undefined", ndebug |-> TRUE]

\* ORTHTREE_DEBUG_CHECKS after the #ifndef block: the user's definition, or
\* 0 under NDEBUG and 1 otherwise
ChecksMacro(b) ==
    IF b.checks = "undefined" THEN (IF b.ndebug THEN "0" ELSE "1") ELSE b.checks

\* #ifdef ORTHTREE_DEBUG_CHECKS: the macro is defined, whatever its value
ChecksMacroDefined(b) == ChecksMacro(b) \in {"0", "1"}

\* ORTHTREE_DEBUG_ASSERT(exp, msg) tests exp: it expands to assert(...) when
\* the #ifdef branch is taken, and assert tests its argument unless NDEBUG
\* is defined
ChecksActive(b) == ChecksMacroDefined(b) /\ ~b.ndebug

Init ==
    /\ GROUP_COUNT \in 1..MaxGroupCount
    /\ SHARED = FALSE
    /\ build = DebugBuild
    /\ DEBUG_CHECKS = ChecksActive(build)
    /\ m_root = Node(Region, 1, SHARED, GROUP_COUNT)
    /\ m_all_values = EmptyMap
    /\ assert_failed = {}
    /\ last = "Tree"
    /\ m_twin = NoTwin
    /\ call = NoCall

\* the template arguments are fixed; the Tree calls make no Box call of
\* their own that SpecBox records
Config == UNCHANGED <<GROUP_COUNT, SHARED, DEBUG_CHECKS, call, build>>

Becomes(o) ==
    /\ m_root' = o.t.m_root
    /\ m_all_values' = o.t.m_all_values
    /\ assert_failed' = o.fail

Add(val, box) ==
    /\ Alive
    /\ \E o \in TreeAdd(Tree, val, box) : Becomes(o)
    /\ last' = "Add"
    /\ Config /\ UNCHANGED m_twin

Del(val) ==
    /\ Alive
    /\ Becomes(TreeDel(Tree, val))
    /\ last' = "Del"
    /\ Config /\ UNCHANGED m_twin

Change(val, box) ==
    /\ Alive
    /\ \E o \in TreeChange(Tree, val, box) : Becomes(o)
    /\ last' = "Change"
    /\ Config /\ UNCHANGED m_twin

Clear ==
    /\ Alive
    /\ Becomes(Out(TreeClear(Tree), {}))
    /\ last' = "Clear"
    /\ Config /\ UNCHANGED m_twin

\* What can stop Tree::GetBox called on its own.  On an unregistered value
\* the assertion fails or, where it is compiled out, iter->second reads
\* through end(): undefined behaviour.  The read faults when it is made, and
\* a build that drops the copy of a Box its caller does not use returns with
\* nothing changed; both outcomes are allowed.
TreeGetBoxStops(t, val) ==
    IF TreeGetBoxPre(t, val) THEN {{}}
    ELSE IF DEBUG_CHECKS THEN {{"No such value"}}
    ELSE {{Crash}, {}}

\* Tree::GetBox as a call
GetBox(val) ==
    /\ Alive
    /\ \E f \in TreeGetBoxStops(Tree, val) : Becomes(Out(Tree, f))
    /\ UNCHANGED last
    /\ Config /\ UNCHANGED m_twin

\* Tree::FindIntersected(val) as a call
FindIntersectedVal(val) ==
    /\ Alive
    /\ Becomes(Out(Tree,
           IF ~TreeFindIntersectedValPre(Tree, val) THEN Deref("No such value")
           ELSE Failed(TreeFindIntersectedValSelf(Tree, val),
                       "No intersection with self")))
    /\ UNCHANGED last
    /\ Config /\ UNCHANGED m_twin

Next ==
    \/ \E val \in Values, box \in Boxes : Add(val, box)
    \/ \E val \in Values : Del(val)
    \/ \E val \in Values, box \in Boxes : Change(val, box)
    \/ Clear
    \/ \E val \in Values : GetBox(val)
    \/ \E val \in Values : FindIntersectedVal(val)

Spec == Init /\ [][Next]_vars

\* Add, Del and Change only (no Clear)
NextADC ==
    \/ \E val \in Values, box \in Boxes : Add(val, box)
    \/ \E val \in Values : Del(val)
    \/ \E val \in Values, box \in Boxes : Change(val, box)
    \/ \E val \in Values : GetBox(val)
    \/ \E val \in Values : FindIntersectedVal(val)

SpecADC == Init /\ [][NextADC]_vars


(* ---------------- zero-volume boxes ---------------- *)
\* boxes with min = max on one or on all axes, strictly inside the region
ZeroBoxes ==
    { PointBox(Pt(1, 1)),            \* inside a quadrant
      PointBox(Pt(2, 2)),            \* the midpoint of a level-2 node
      PointBox(Pt(4, 4)),            \* the midpoint of the root
      PointBox(Pt(3, 1)),            \* same level-2 node as (1,1), other side
      Box(Pt(4, 1), Pt(4, 3)),       \* zero width, on the root's midline
      Box(Pt(1, 1), Pt(3, 1)) }      \* zero height, through (1,1) and (3,1)

\* the exclusive-mode tree of Init driven with zero-volume boxes
NextZero ==
    \/ \E val \in Values, box \in ZeroBoxes : Add(val, box)
    \/ \E val \in Values : Del(val)
    \/ \E val \in Values, box \in ZeroBoxes : Change(val, box)

SpecZero == Init /\ [][NextZero]_vars

(* ---------------- shared mode ---------------- *)
\* Tree<..., NODES_SHARE_VAL = true>, built with and without NDEBUG, driven by
\* calls that respect the documented preconditions: Add of an unregistered
\* value with a box inside the region, Del and Change of a registered value.
InitShared ==
    /\ GROUP_COUNT \in 1..MaxGroupCount
    /\ SHARED = TRUE
    /\ build \in {DebugBuild, ReleaseBuild}
    /\ DEBUG_CHECKS = ChecksActive(build)
    /\ m_root = Node(Region, 1, SHARED, GROUP_COUNT)
    /\ m_all_values = EmptyMap
    /\ assert_failed = {}
    /\ last = "Tree"
    /\ m_twin = NoTwin
    /\ call = NoCall

AddPre(val, box) ==
    /\ ~TreeContains(Tree, val) /\ Contain(TreeArea(Tree), box)
    /\ Add(val, box)

DelPre(val) == TreeContains(Tree, val) /\ Del(val)

ChangePre(val, box) ==
    /\ TreeContains(Tree, val) /\ Contain(TreeArea(Tree), box)
    /\ Change(val, box)

NextShared ==
    \/ \E val \in Values, box \in Boxes : AddPre(val, box)
    \/ \E val \in Values : DelPre(val)
    \/ \E val \in Values, box \in Boxes : ChangePre(val, box)

SpecShared == InitShared /\ [][NextShared]_vars

(* ---------------- every build configuration ---------------- *)
\* Tree<int, float, 2, GROUP_COUNT> compiled under each combination of
\* ORTHTREE_DEBUG_CHECKS and NDEBUG.  Values are added once, with any box
\* (a box outside the region violates Add's precondition; without checks it
\* is stored in the root's bucket), and deleted while registered.
InitBuild ==
    /\ GROUP_COUNT \in 1..MaxGroupCount
    /\ SHARED = FALSE
    /\ build \in BuildConfigs
    /\ DEBUG_CHECKS = ChecksActive(build)
    /\ m_root = Node(Region, 1, SHARED, GROUP_COUNT)
    /\ m_all_values = EmptyMap
    /\ assert_failed = {}
    /\ last = "Tree"
    /\ m_twin = NoTwin
    /\ call = NoCall

AddNew(val, box) == ~TreeContains(Tree, val) /\ Add(val, box)

NextBuild ==
    \/ \E val \in Values, box \in Boxes : AddNew(val, box)
    \/ \E val \in Values : DelPre(val)

SpecBuild == InitBuild /\ [][NextBuild]_vars

(* ---------------- consecutive floats ---------------- *)
\* Tree<int, float, 2, GROUP_COUNT> over the region from (2^23, 2^23) to
\* (2^23 + UlpWidth, 2^23 + UlpWidth), debug build.  The coordinate c stands
\* for the float 2^23 + c; these floats are one unit apart, so 0..UlpWidth are
\* all the floats of the region on an axis and no box has a corner between
\* them.  The width is not a power of two: midpoints are rounded (Avg).
UlpWidth == 13
UlpRegion == Box(Pt(0, 0), Pt(UlpWidth, UlpWidth))
UlpBoxes ==
    { PointBox(Pt(7, 7)),            \* falls through three nodes
      PointBox(Pt(9, 9)),            \* same nodes as (7,7) down to level 3
      PointBox(Pt(5, 5)),            \* low-low quadrant, falls to level 4
      PointBox(Pt(1, 1)),            \* low-low quadrant, other side
      PointBox(Pt(7, 11)),           \* low on one axis, high on the other
      PointBox(Pt(12, 12)),          \* the rounded midpoint of a level-2 node
      PointBox(Pt(6, 6)),            \* the rounded midpoint of the root
      Box(Pt(7, 7), Pt(9, 9)) }      \* straddles the midpoint of a level-3 node

InitUlp ==
    /\ GROUP_COUNT \in 1..MaxGroupCount
    /\ SHARED = FALSE
    /\ build = DebugBuild
    /\ DEBUG_CHECKS = ChecksActive(build)
    /\ m_root = Node(UlpRegion, 1, SHARED, GROUP_COUNT)
    /\ m_all_values = EmptyMap
    /\ assert_failed = {}
    /\ last = "Tree"
    /\ m_twin = NoTwin
    /\ call = NoCall

NextUlp ==
    \/ \E val \in Values, box \in UlpBoxes : AddNew(val, box)
    \/ \E val \in Values : DelPre(val)

SpecUlp == InitUlp /\ [][NextUlp]_vars

(* ---------------- the README's Basic Usage program ---------------- *)
\* coordinates are in units of 0.5, so that 0.5 and 1.5 are the integers 1, 3
GROUP_COUNT_DEFAULT == 10
ReadmeRegion == Box(Pt(-10, -12), Pt(22, 14))   \* (-5,-6) to (11,7)
ReadmeBox ==
    [val \in 1..3 |->
        CASE val = 1 -> Box(Pt(2, 2), Pt(4, 4))       \* (1,1)-(2,2)
          [] val = 2 -> Box(Pt(20, 20), Pt(40, 40))   \* (10,10)-(20,20)
          [] val = 3 -> Box(Pt(1, 1), Pt(3, 3))]      \* (0.5,0.5)-(1.5,1.5)

\* Tree<int, float, 2> tree{Box_t{{-5.0, -6.0}, {11.0, 7.0}}}, compiled
\* under any build configuration
InitReadme ==
    /\ GROUP_COUNT = GROUP_COUNT_DEFAULT
    /\ SHARED = FALSE
    /\ build \in BuildConfigs
    /\ DEBUG_CHECKS = ChecksActive(build)
    /\ m_root = Node(ReadmeRegion, 1, SHARED, GROUP_COUNT)
    /\ m_all_values = EmptyMap
    /\ assert_failed = {}
    /\ last = "Tree"
    /\ m_twin = NoTwin
    /\ call = NoCall

\* the program's calls, each on the object the program makes it on:
\* tree.Add(val, box of val); if (tree.Contains(val)) tree.GetBox(val);
\* tree.Del(val) of an object added before
ReadmeAdd(val) == AddNew(val, ReadmeBox[val])
ReadmeGetBox(val) == TreeContains(Tree, val) /\ GetBox(val)
ReadmeDel(val) == DelPre(val)

\* tree.FindIntersected(Box_t{{-10.0, -1.0}, {1.0, 10.0}}): the call and the
\* values it returned
ReadmeQuery == Box(Pt(-20, -2), Pt(2, 20))
ReadmeFindIntersected ==
    /\ Alive
    /\ call' = [op |-> "FindIntersected",
                result |-> TreeFindIntersectedBox(Tree, ReadmeQuery)]
    /\ UNCHANGED <<m_root, m_all_values, GROUP_COUNT, SHARED, DEBUG_CHECKS,
                   assert_failed, last, m_twin, build>>

NextReadme ==
    \/ ReadmeFindIntersected
    \/ \E val \in DOMAIN ReadmeBox : ReadmeAdd(val)
    \/ \E val \in DOMAIN ReadmeBox : ReadmeGetBox(val)
    \/ \E val \in DOMAIN ReadmeBox : ReadmeDel(val)

SpecReadme == InitReadme /\ [][NextReadme]_vars

(* ---------------- two trees driven by the same calls ---------------- *)
\* a GROUP_COUNT larger than the number of values ever stored
BigGroupCount == MaxVal + 1

\* m_root / m_all_values: Tree<int, float, 2, 1>; m_twin: the outcome (tree,
\* failed assertions) of the same calls on a Tree<int, float, 2, BigGroupCount>
\* over the same region
InitTwin ==
    /\ GROUP_COUNT = 1
    /\ SHARED = FALSE
    /\ build = DebugBuild
    /\ DEBUG_CHECKS = ChecksActive(build)
    /\ m_root = Node(Region, 1, SHARED, GROUP_COUNT)
    /\ m_all_values = EmptyMap
    /\ assert_failed = {}
    /\ last = "Tree"
    /\ m_twin = Out([m_root |-> Node(Region, 1, SHARED, BigGroupCount),
                     m_all_values |-> EmptyMap], {})
    /\ call = NoCall

BothAlive == Alive /\ m_twin.fail = {}

AddBoth(val, box) ==
    /\ BothAlive
    /\ \E o \in TreeAdd(Tree, val, box) : Becomes(o)
    /\ \E o \in TreeAdd(m_twin.t, val, box) : m_twin' = o
    /\ last' = "Add"
    /\ Config

DelBoth(val) ==
    /\ BothAlive
    /\ Becomes(TreeDel(Tree, val))
    /\ m_twin' = TreeDel(m_twin.t, val)
    /\ last' = "Del"
    /\ Config

ChangeBoth(val, box) ==
    /\ BothAlive
    /\ \E o \in TreeChange(Tree, val, box) : Becomes(o)
    /\ \E o \in TreeChange(m_twin.t, val, box) : m_twin' = o
    /\ last' = "Change"
    /\ Config

NextTwin ==
    \/ \E val \in Values, box \in Boxes : AddBoth(val, box)
    \/ \E val \in Values : DelBoth(val)
    \/ \E val \in Values, box \in Boxes : ChangeBoth(val, box)

SpecTwin == InitTwin /\ [][NextTwin]_vars

(* ---------------- the Box functions on their own ---------------- *)
\* the corner points the calls are made with: all points of a small grid
Coords == 0..MaxCoord
Points == [Axes -> Coords]

\* the two boxes of a call, built from the four points of the state
ArgA == Box(call.pts[1], call.pts[2])
ArgB == Box(call.pts[3], call.pts[4])

InitBox ==
    /\ GROUP_COUNT = 1
    /\ SHARED = FALSE
    /\ build = DebugBuild
    /\ DEBUG_CHECKS = ChecksActive(build)
    /\ m_root = Node(Region, 1, SHARED, GROUP_COUNT)
    /\ m_all_values = EmptyMap
    /\ assert_failed = {}
    /\ last = "Tree"
    /\ m_twin = NoTwin
    /\ \E p1 \in Points, p2 \in Points, p3 \in Points, p4 \in Points :
          call = [op |-> "args", pts |-> <<p1, p2, p3, p4>>]

NoTree == UNCHANGED <<m_root, m_all_values, GROUP_COUNT, SHARED, DEBUG_CHECKS,
                      assert_failed, last, m_twin, build>>

Returns(op, result) ==
    /\ call.op = "args"
    /\ call' = [op |-> op, pts |-> call.pts, result |-> result]
    /\ NoTree

CallBox == Returns("Box", Box(call.pts[1], call.pts[2]))
CallPointBox == Returns("PointBox", PointBox(call.pts[1]))
CallIntersect == Returns("Intersect", Intersect(ArgA, ArgB))
CallIntersection == Returns("Intersection", Intersection(ArgA, ArgB))
CallContain == Returns("Contain", Contain(ArgA, ArgB))
CallContainStrict == Returns("ContainStrict", ContainStrict(ArgA, ArgB))

\* ContainOrthant and ContainInOrthant halve a box.  They are called with
\* boxes of even coordinates (the grid scaled by 2), whose midpoints are
\* integers, so that the integer division of Mid is the exact (a + b) / 2
Twice(box) == [min |-> [i \in Axes |-> 2 * box.min[i]],
               max |-> [i \in Axes |-> 2 * box.max[i]]]
SelfBox == Twice(ArgA)
OtherBox == Twice(ArgB)

CallContainInOrthant ==
    Returns("ContainInOrthant", ContainInOrthant(SelfBox, OtherBox))
CallContainOrthant ==
    Returns("ContainOrthant", ContainOrthant(SelfBox, OtherBox))

\* FitSection of a node over the region SelfBox (even coordinates: the
\* halved extent is an integer)
CallFitSection ==
    Returns("FitSection", FitSection(Node(SelfBox, 1, FALSE, GROUP_COUNT), OtherBox))

NextBox ==
    \/ CallBox \/ CallPointBox \/ CallIntersect \/ CallIntersection
    \/ CallContain \/ CallContainStrict
    \/ CallContainInOrthant \/ CallContainOrthant
    \/ CallFitSection

SpecBox == InitBox /\ [][NextBox]_vars

(* ---------------- reference definitions for the properties ---------------- *)
\* brute-force scan of a value -> box map: every intersecting pair once
BrutePairs(m) ==
    [p \in {PairOf(v, w) : <<v, w>> \in
               {vw \in (DOMAIN m) \X (DOMAIN m) :
                   vw[1] # vw[2] /\ Intersect(m[vw[1]], m[vw[2]])}} |-> 1]

BruteBox(m, box) == {v \in DOMAIN m : Intersect(m[v], box)}

\* the (value, box) entries of every bucket of a subtree, with multiplicity
RECURSIVE NodeStored(_, _), BiSectionStored(_, _, _)
NodeStored(n, e) ==
    (IF e[1] \in DOMAIN n.m_bucket /\ n.m_bucket[e[1]] = e[2] THEN 1 ELSE 0)
    + (IF IsNull(n.m_sub_nodes) THEN 0 ELSE BiSectionStored(n.m_sub_nodes, DIM, e))
BiSectionStored(sec, X, e) ==
    IF X = 1 THEN NodeStored(sec[Low], e) + NodeStored(sec[High], e)
    ELSE BiSectionStored(sec[Low], X - 1, e) + BiSectionStored(sec[High], X - 1, e)

Entries == Values \X Boxes
StoredEntries(n) == {e \in Entries : NodeStored(n, e) > 0}
RegistryEntries(m) == {<<v, m[v]>> : v \in DOMAIN m}

RootSplit == ~IsNull(m_root.m_sub_nodes)

\* the regions of the nodes of a subtree
RECURSIVE NodeAreas(_), BiSectionAreas(_, _)
NodeAreas(n) ==
    {n.m_area} \cup (IF IsNull(n.m_sub_nodes) THEN {}
                     ELSE BiSectionAreas(n.m_sub_nodes, DIM))
BiSectionAreas(sec, X) ==
    IF X = 1 THEN NodeAreas(sec[Low]) \cup NodeAreas(sec[High])
    ELSE BiSectionAreas(sec[Low], X - 1) \cup BiSectionAreas(sec[High], X - 1)

\* every midpoint computed in a reachable tree over Region is an integer: the
\* division by 2 is exact there
MidExact ==
    \A a \in NodeAreas(m_root) : \A i \in Axes : (a.min[i] + a.max[i]) % 2 = 0

(* ---------------- properties ---------------- *)

\* C1: in exclusive mode, after any sequence of Add, Del and Change calls that
\* returned, FindIntersected() is, as a bag of unordered pairs, exactly the
\* brute-force set of pairs of registered values whose boxes intersect, each
\* pair once.  (checked under SpecADC)
C1_PairsExact ==
    (Alive /\ ~SHARED) => TreeFindIntersected(Tree) = BrutePairs(m_all_values)

\* a split root that keeps a straddling value in its bucket, with three
\* registered values and at least two intersecting pairs
C1_Witness ==
    /\ Alive /\ ~SHARED /\ RootSplit
    /\ m_root.m_bucket # EmptyMap
    /\ Cardinality(DOMAIN m_all_values) = 3
    /\ Cardinality(DOMAIN TreeFindIntersected(Tree)) >= 2

\* C2: the registry mirrors the node tree in every state reachable by Add, Del,
\* Change and Clear: same values, and for each value the same box.
C2_RegistryMirrorsTree ==
    Alive => StoredEntries(m_root) = RegistryEntries(m_all_values)


\* a state in which Clear emptied the node tree under a non-empty registry
C2_Reached == Alive /\ last = "Clear" /\ m_all_values # EmptyMap

\* C3: immediately after an Add(v, b) that returned, Contains(v) is true and
\* GetBox(v) = b; immediately after a Del(v) that returned, Contains(v) is false
\* and v is not in GetAllValues().  (checked under SpecADC)
C3_AddDelEffect ==
    [][ /\ \A v \in Values, b \in Boxes :
             (last' = "Add" /\ Alive' /\ Add(v, b)) =>
                 (TreeContains(Tree', v) /\ TreeGetBox(Tree', v) = b)
        /\ \A v \in Values :
             (last' = "Del" /\ Alive' /\ Del(v)) =>
                 (~TreeContains(Tree', v) /\ v \notin DOMAIN TreeGetAllValues(Tree'))
      ]_vars

\* a Del has returned on a tree that still holds two values in a split root
C3_Witness ==
    /\ Alive /\ last = "Del" /\ RootSplit
    /\ Cardinality(DOMAIN m_all_values) = 2

\* C4: after Clear() the tree is empty: GetAllValues() is empty, Contains(v)
\* is false for every v and FindIntersected() returns no pair.
C4_ClearEmpties ==
    (Alive /\ last = "Clear") =>
        /\ TreeGetAllValues(Tree) = EmptyMap
        /\ \A v \in Values : ~TreeContains(Tree, v)
        /\ TreeFindIntersected(Tree) = EmptyBag

\* what a client can observe of a tree: the registry, the three queries and
\* the node structure TraverseDeep reports
Observe(t) ==
    [values |-> TreeGetAllValues(t),
     pairs  |-> TreeFindIntersected(t),
     byBox  |-> [q \in QueryBoxes |-> TreeFindIntersectedBox(t, q)],
     byVal  |-> [v \in DOMAIN t.m_all_values |->
                    NodeFindIntersectedBox(t.m_root, TreeGetBox(t, v)) \ {v}],
     nodes  |-> TreeTraverseDeep(t)]

ObserveOut(o) == [fail |-> o.fail # {}, obs |-> Observe(o.t)]

\* C5: a cleared tree is indistinguishable from a freshly constructed tree
\* over the same region; here for the first call after the Clear: every
\* Add(v, b) is accepted by both or by neither and leaves both trees with the
\* same registry, query results and node structure.
C5_ClearedIsFresh ==
    (Alive /\ last = "Clear") =>
        \A v \in Values, b \in Boxes :
            {ObserveOut(o) : o \in TreeAdd(Tree, v, b)}
            = {ObserveOut(o) : o \in TreeAdd(NewTree(Region, SHARED), v, b)}

\* C6: FindIntersected(box) returns exactly the registered values whose stored
\* box intersects the query box, for every query box (zero-volume boxes and
\* boxes partly or wholly outside the region included) and every tree
\* reachable by Add/Del/Change.  (checked under SpecADC)
C6_BoxQueryExact ==
    Alive => \A q \in QueryBoxes :
                 TreeFindIntersectedBox(Tree, q) = BruteBox(m_all_values, q)

\* a split root; a partly outside query box finds a value of the root bucket
\* and one of a child, a zero-volume query box finds a value two levels down
C6_Witness ==
    /\ Alive /\ RootSplit
    /\ \E v \in DOMAIN m_root.m_bucket, w \in DOMAIN m_all_values :
          /\ w \notin DOMAIN m_root.m_bucket
          /\ {v, w} \subseteq TreeFindIntersectedBox(Tree, Box(Pt(5, 3), Pt(9, 9)))
    /\ TreeFindIntersectedBox(Tree, PointBox(Pt(2, 2))) # {}

\* C7: for every registered value v, FindIntersected(v) returns exactly the
\* other registered values whose box intersects GetBox(v), never v itself,
\* and the internal check that the raw result contains v holds.
C7_ValueQueryExact ==
    Alive => \A v \in DOMAIN m_all_values :
                 /\ TreeFindIntersectedValSelf(Tree, v)
                 /\ v \notin TreeFindIntersectedVal(Tree, v)
                 /\ TreeFindIntersectedVal(Tree, v)
                    = {w \in (DOMAIN m_all_values) \ {v} :
                          Intersect(m_all_values[w], m_all_values[v])}

\* FindIntersected() restricted to the pairs with / without the value v
PairsWith(bag, v) == {p \in DOMAIN bag : v \in p}
PairsWithout(bag, v) == [p \in {q \in DOMAIN bag : v \notin q} |-> bag[p]]

\* C8: a Change(v, b) on a registered v that returns is Del(v) followed by
\* Add(v, b): same registry and node tree; the set of registered values is
\* unchanged, GetBox(v) = b, and FindIntersected() afterwards reflects only the
\* new box of v: the pairs without v are as before, the pairs with v are
\* exactly those with the stored values whose box intersects b, each once.
\* Stated of every Change call that can be made in a reachable state.
C8_ChangeIsDelAdd ==
    Alive =>
      LET before == TreeFindIntersected(Tree)
      IN  \A v \in DOMAIN m_all_values, b \in Boxes :
            LET viaDelAdd == TreeAdd(TreeDel(Tree, v).t, v, b)
                hits      == TreeFindIntersectedBox(Tree, b) \ {v}
            IN  \A o \in TreeChange(Tree, v, b) :
                  (o.fail = {}) =>
                    LET after == TreeFindIntersected(o.t)
                    IN  /\ o \in viaDelAdd
                        /\ DOMAIN o.t.m_all_values = DOMAIN m_all_values
                        /\ TreeGetBox(o.t, v) = b
                        /\ \A w \in (DOMAIN m_all_values) \ {v} :
                              TreeGetBox(o.t, w) = TreeGetBox(Tree, w)
                        /\ PairsWithout(after, v) = PairsWithout(before, v)
                        /\ PairsWith(after, v) = {PairOf(v, w) : w \in hits}
                        /\ \A p \in PairsWith(after, v) : after[p] = 1

\* a Change has returned in a split tree and its value is in an
\* intersecting pair
C8_Witness ==
    /\ Alive /\ last = "Change" /\ RootSplit
    /\ TreeFindIntersected(Tree) # EmptyBag
    /\ Cardinality(DOMAIN m_all_values) = 3

\* the box of a stored value lies in the region, boundary included
C9_Stored(t, v, b) ==
    /\ TreeContains(t, v) /\ TreeGetBox(t, v) = b
    /\ NodeStored(t.m_root, <<v, b>>) = 1

\* C9: with debug checks, Add(v, b) is rejected exactly when v is already
\* registered or b is not contained in the region (boundary inclusive); every
\* other call, also one whose box touches the boundary of the region, stores
\* v in the root node and in the registry.
C9_AddRejectedIff ==
    [][ \A v \in Values, b \in Boxes :
          (DEBUG_CHECKS /\ last' = "Add" /\ Add(v, b)) =>
              /\ (~Alive') <=> (TreeContains(Tree, v) \/ ~Contain(TreeArea(Tree), b))
              /\ Alive' => C9_Stored(Tree', v, b)
      ]_vars

\* C10: with debug checks, Del(v), Change(v, b), GetBox(v) and
\* FindIntersected(v) on an unregistered v fail an assertion before any
\* mutation: registry and node tree (buckets, subdivisions, counts) are as
\* before the call.
C10_MissingValueRejected ==
    [][ \A v \in Values :
          (/\ DEBUG_CHECKS /\ ~TreeContains(Tree, v)
           /\ (\/ Del(v) \/ GetBox(v) \/ FindIntersectedVal(v)
               \/ \E b \in Boxes : Change(v, b))) =>
              /\ ~Alive'
              /\ m_root' = m_root
              /\ m_all_values' = m_all_values
      ]_vars

\* a call on an unregistered value was rejected on a tree with a split root
C10_Witness ==
    /\ assert_failed = {"No such value"}
    /\ RootSplit
    /\ Cardinality(DOMAIN m_all_values) < MaxVal

\* in how many buckets of a subtree the value v is a key
RECURSIVE NodeHolds(_, _), BiSectionHolds(_, _, _)
NodeHolds(n, v) ==
    (IF v \in DOMAIN n.m_bucket THEN 1 ELSE 0)
    + (IF IsNull(n.m_sub_nodes) THEN 0 ELSE BiSectionHolds(n.m_sub_nodes, DIM, v))
BiSectionHolds(sec, X, v) ==
    IF X = 1 THEN NodeHolds(sec[Low], v) + NodeHolds(sec[High], v)
    ELSE BiSectionHolds(sec[Low], X - 1, v) + BiSectionHolds(sec[High], X - 1, v)

\* the level of the deepest node whose bucket holds v (0: none)
RECURSIVE NodeDepth(_, _), BiSectionDepth(_, _, _)
NodeDepth(n, v) ==
    Max2(IF v \in DOMAIN n.m_bucket THEN n.m_level ELSE 0,
         IF IsNull(n.m_sub_nodes) THEN 0 ELSE BiSectionDepth(n.m_sub_nodes, DIM, v))
BiSectionDepth(sec, X, v) ==
    IF X = 1 THEN Max2(NodeDepth(sec[Low], v), NodeDepth(sec[High], v))
    ELSE Max2(BiSectionDepth(sec[Low], X - 1, v), BiSectionDepth(sec[High], X - 1, v))

\* C11: in exclusive mode no value is a key of two different node buckets,
\* neither of a node and one of its descendants nor of two sibling subtrees.
\* (checked under SpecADC)
C11_StoredOnce ==
    (Alive /\ ~SHARED) => \A v \in Values : NodeHolds(m_root, v) <= 1

\* a split root holding one value in its own bucket and two below it, at
\* least one of them after a redistribution at the split
C11_Witness ==
    /\ Alive /\ ~SHARED /\ RootSplit
    /\ Cardinality(DOMAIN m_root.m_bucket) = 1
    /\ Cardinality(DOMAIN m_all_values) = 3
    /\ \A v \in DOMAIN m_all_values : NodeHolds(m_root, v) = 1

\* C12: with SHARED = true, after any sequence of precondition-respecting
\* Add/Del/Change calls every call has returned and FindIntersected() is, as a
\* bag of unordered pairs, exactly the brute-force set of intersecting pairs,
\* each pair once.  (SpecShared makes precondition-respecting calls only)
C12_SharedPairsExact ==
    SHARED => /\ Alive
              /\ TreeFindIntersected(Tree) = BrutePairs(m_all_values)

\* the three query results of a tree: FindIntersected(), FindIntersected(box)
\* for every query box, FindIntersected(value) for every registered value
QueryResults(t) ==
    [pairs |-> TreeFindIntersected(t),
     byBox |-> [q \in QueryBoxes |-> TreeFindIntersectedBox(t, q)],
     byVal |-> [v \in DOMAIN t.m_all_values |-> TreeFindIntersectedVal(t, v)]]

\* C13: two exclusive-mode trees over the same region, one with GROUP_COUNT = 1
\* and one with GROUP_COUNT larger than the number of values ever stored,
\* driven by the same Add/Del/Change calls: after every step a call has
\* returned on both or on neither, and the three queries return equal results
\* on both.  (checked under SpecTwin)
C13_GroupCountIrrelevant ==
    /\ Alive <=> (m_twin.fail = {})
    /\ BothAlive => QueryResults(Tree) = QueryResults(m_twin.t)

\* the GROUP_COUNT = 1 tree is split two levels deep, the other tree holds the
\* same three values in its root bucket, and some pair intersects
C13_Witness ==
    /\ BothAlive /\ RootSplit
    /\ \E v \in DOMAIN m_all_values : NodeDepth(m_root, v) >= 3
    /\ IsNull(m_twin.t.m_root.m_sub_nodes)
    /\ Cardinality(DOMAIN m_twin.t.m_root.m_bucket) = 3
    /\ TreeFindIntersected(m_twin.t) # EmptyBag

IsPoint(b) == b.min = b.max

\* two registered point boxes are a pair of FindIntersected(), once, exactly
\* when they are the same point
PointPairs(t) ==
    LET pairs == TreeFindIntersected(t)
    IN  \A v \in DOMAIN t.m_all_values, w \in DOMAIN t.m_all_values :
          (v # w /\ IsPoint(TreeGetBox(t, v)) /\ IsPoint(TreeGetBox(t, w))) =>
              /\ (PairOf(v, w) \in DOMAIN pairs)
                   <=> (TreeGetBox(t, v) = TreeGetBox(t, w))
              /\ (PairOf(v, w) \in DOMAIN pairs) => pairs[PairOf(v, w)] = 1

\* C14: a zero-volume box strictly inside the region (on a node's midpoint
\* too) is accepted by Add for an unregistered value and afterwards reported
\* by Contains and GetBox and stored in one bucket; in every tree reached by
\* calls that returned, and after every such Add, two point boxes are an
\* intersecting pair of FindIntersected() iff they are the same point.
\* Stated of every Add call that can be made in a reachable state.
\* (checked under SpecZero)
C14_ZeroVolume ==
    Alive =>
      /\ PointPairs(Tree)
      /\ \A v \in Values \ DOMAIN m_all_values, b \in ZeroBoxes :
            \A o \in TreeAdd(Tree, v, b) :
                /\ o.fail = {}
                /\ TreeContains(o.t, v) /\ TreeGetBox(o.t, v) = b
                /\ NodeHolds(o.t.m_root, v) = 1
                /\ PointPairs(o.t)

\* a split root with a point on its midpoint, and two values on the same point
\* of the same child reported as a pair
C14_Witness ==
    /\ Alive /\ last = "Add" /\ RootSplit
    /\ \E v \in DOMAIN m_root.m_bucket : TreeGetBox(Tree, v) = PointBox(Pt(4, 4))
    /\ \E v \in DOMAIN m_all_values, w \in DOMAIN m_all_values :
          /\ v # w /\ TreeGetBox(Tree, v) = TreeGetBox(Tree, w)
          /\ IsPoint(TreeGetBox(Tree, v))
          /\ NodeDepth(m_root, v) >= 2
          /\ PairOf(v, w) \in DOMAIN TreeFindIntersected(Tree)

\* the nodes of a subtree: the children of a node, all nodes, and the number
\* of callbacks a traversal of the subtree makes
RECURSIVE SecNodes(_, _), NodesOf(_), SumBuckets(_)
SecNodes(sec, X) ==
    IF X = 1 THEN {sec[Low], sec[High]}
    ELSE SecNodes(sec[Low], X - 1) \cup SecNodes(sec[High], X - 1)
Children(n) == IF IsNull(n.m_sub_nodes) THEN {} ELSE SecNodes(n.m_sub_nodes, DIM)
NodesOf(n) == {n} \cup UNION {NodesOf(c) : c \in Children(n)}
SumBuckets(S) ==
    IF S = {} THEN 0
    ELSE LET x == CHOOSE y \in S : TRUE
         IN  Cardinality(DOMAIN x.m_bucket) + SumBuckets(S \ {x})
CallCount(n) == Cardinality(NodesOf(n)) + SumBuckets(NodesOf(n))

IsLevelCbOf(c, n) == c.cb = "level" /\ c.area = n.m_area
IsValueCbOf(c, n) ==
    c.cb = "value" /\ c.lvl = n.m_level /\ c.val \in DOMAIN n.m_bucket
       /\ n.m_bucket[c.val] = c.box

\* C15: every callback sequence of TraverseDeep is a depth-first pre-order:
\* it starts with the root region at level 1; for every node the region
\* callback is followed at once by the value callbacks of the node's own
\* bucket, and the callbacks of its descendants come after those, in one
\* block that ends where the node's subtree ends.  (checked under SpecADC)
C15_PreOrder ==
    Alive =>
      \A tr \in TreeTraverseCalls(Tree) :
        /\ tr[1] = LevelCb(TreeArea(Tree), 1)
        /\ \A n \in NodesOf(m_root) :
              \E i \in 1..Len(tr) :
                LET k == Cardinality(DOMAIN n.m_bucket)
                IN  /\ IsLevelCbOf(tr[i], n)
                    /\ i + CallCount(n) - 1 <= Len(tr)
                    /\ \A j \in (i + 1)..(i + k) : IsValueCbOf(tr[j], n)
                    /\ {tr[j].val : j \in (i + 1)..(i + k)} = DOMAIN n.m_bucket
                    /\ \A d \in NodesOf(n) \ {n} : \A j \in 1..Len(tr) :
                          (IsLevelCbOf(tr[j], d) \/ IsValueCbOf(tr[j], d)) =>
                              (j > i + k /\ j <= i + CallCount(n) - 1)

\* a traversal of a tree three levels deep whose root keeps a value in its
\* own bucket
C15_Witness ==
    /\ Alive /\ RootSplit
    /\ m_root.m_bucket # EmptyMap
    /\ \E v \in DOMAIN m_all_values : NodeDepth(m_root, v) >= 3
    /\ \E tr \in TreeTraverseCalls(Tree) : Len(tr) >= 12

\* C16: in exclusive mode every callback sequence of TraverseDeep reports
\* the region of every existing node exactly once and no other region, every
\* registered value exactly once and no other value, each value with its
\* registered box and with the level of the node whose bucket holds it; the
\* reported level of a child is the reported level of its parent plus 1.
\* (checked under SpecADC)
C16_TraverseComplete ==
    (Alive /\ ~SHARED) =>
      \A tr \in TreeTraverseCalls(Tree) :
        LET idx == 1..Len(tr)
            LevelOf(n) == tr[CHOOSE i \in idx : IsLevelCbOf(tr[i], n)].lvl
        IN  /\ \A n \in NodesOf(m_root) :
                  Cardinality({i \in idx : IsLevelCbOf(tr[i], n)}) = 1
            /\ Cardinality({i \in idx : tr[i].cb = "level"})
               = Cardinality(NodesOf(m_root))
            /\ \A v \in DOMAIN m_all_values :
                  /\ Cardinality({i \in idx : tr[i].cb = "value" /\ tr[i].val = v}) = 1
                  /\ \A i \in idx : (tr[i].cb = "value" /\ tr[i].val = v) =>
                        /\ tr[i].box = TreeGetBox(Tree, v)
                        /\ \E n \in NodesOf(m_root) :
                              v \in DOMAIN n.m_bucket /\ tr[i].lvl = n.m_level
            /\ Cardinality({i \in idx : tr[i].cb = "value"})
               = Cardinality(DOMAIN m_all_values)
            /\ \A n \in NodesOf(m_root) : \A c \in Children(n) :
                  LevelOf(c) = LevelOf(n) + 1

\* a traversal after a Change, of a tree with values at levels 1, 2 and 3
C16_Witness ==
    /\ Alive /\ ~SHARED /\ last = "Change"
    /\ {NodeDepth(m_root, v) : v \in DOMAIN m_all_values} = {1, 2, 3}

\* C17: GROUP_COUNT is the maximum number of values of an unsplit node: no
\* node without a subdivision has more than GROUP_COUNT values in its bucket.
C17_BucketBound ==
    Alive => \A n \in NodesOf(m_root) :
                 IsNull(n.m_sub_nodes) => Cardinality(DOMAIN n.m_bucket) <= n.gc

\* C18: the box of the two-point constructor has, on every axis, the smaller
\* of the two coordinates as min and the larger as max, so min <= max, and
\* is the same box when the corners are swapped; the single-point constructor
\* gives min = max = the point.  (checked under SpecBox)
C18_BoxOrdered ==
    /\ (call.op = "Box") =>
          LET p1 == call.pts[1]
              p2 == call.pts[2]
              r  == call.result
          IN  /\ \A i \in Axes :
                    /\ r.min[i] <= r.max[i]
                    /\ r.min[i] \in {p1[i], p2[i]} /\ r.max[i] \in {p1[i], p2[i]}
                    /\ r.min[i] <= p1[i] /\ r.min[i] <= p2[i]
                    /\ r.max[i] >= p1[i] /\ r.max[i] >= p2[i]
              /\ r = Box(p2, p1)
    /\ (call.op = "PointBox") =>
          /\ call.result.min = call.pts[1]
          /\ call.result.max = call.pts[1]

\* the corners were given out of order on one axis and in order on the other
C18_Witness ==
    /\ call.op = "Box"
    /\ call.pts[1][1] > call.pts[2][1] /\ call.pts[1][2] < call.pts[2][2]
    /\ call.result.min = <<call.pts[2][1], call.pts[1][2]>>

\* the closed intervals of a and b on axis i share a point
SharePoint(a, b, i) ==
    \E x \in Coords : /\ a.min[i] <= x /\ x <= a.max[i]
                      /\ b.min[i] <= x /\ x <= b.max[i]

\* C19: Intersect(A, B) is true iff on every axis the closed intervals of A
\* and B share a point, and Intersect(A, B) = Intersect(B, A).
\* (checked under SpecBox)
C19_IntersectClosed ==
    (call.op = "Intersect") =>
        /\ call.result <=> (\A i \in Axes : SharePoint(ArgA, ArgB, i))
        /\ call.result = Intersect(ArgB, ArgA)

\* two boxes of positive volume that only touch along an edge intersect
C19_Witness ==
    /\ call.op = "Intersect" /\ call.result
    /\ ArgA.max[1] = ArgB.min[1] /\ ArgA.min[1] < ArgA.max[1]
    /\ ArgB.min[1] < ArgB.max[1]
    /\ ArgA.min[2] < ArgA.max[2] /\ ArgB.min[2] < ArgB.max[2]

\* C20: Intersection(A, B) has a value iff Intersect(A, B); the value has on
\* every axis the larger of the two mins as min and the smaller of the two
\* maxes as max, is a valid box and is contained in A and in B.
\* (checked under SpecBox)
C20_IntersectionValue ==
    (call.op = "Intersection") =>
        /\ call.result.has_value <=> Intersect(ArgA, ArgB)
        /\ call.result.has_value =>
              LET r == call.result.value
              IN  /\ \A i \in Axes :
                        /\ r.min[i] \in {ArgA.min[i], ArgB.min[i]}
                        /\ r.min[i] >= ArgA.min[i] /\ r.min[i] >= ArgB.min[i]
                        /\ r.max[i] \in {ArgA.max[i], ArgB.max[i]}
                        /\ r.max[i] <= ArgA.max[i] /\ r.max[i] <= ArgB.max[i]
                        /\ r.min[i] <= r.max[i]
                  /\ Contain(ArgA, r) /\ Contain(ArgB, r)

\* the intersection of two boxes that touch in a corner is that point
C20_Witness ==
    /\ call.op = "Intersection" /\ call.result.has_value
    /\ call.result.value.min = call.result.value.max
    /\ ArgA.min[1] < ArgA.max[1] /\ ArgB.min[1] < ArgB.max[1]
    /\ ArgA.min[2] < ArgA.max[2] /\ ArgB.min[2] < ArgB.max[2]

\* the inner box has a face on a face of the outer box on some axis
TouchesBoundary(outer, inner) ==
    \E i \in Axes : \/ inner.min[i] \in {outer.min[i], outer.max[i]}
                    \/ inner.max[i] \in {outer.min[i], outer.max[i]}

\* C21: Contain(A, A) is true and ContainStrict(A, A) is false for every box
\* A; ContainStrict(outer, inner) implies Contain(outer, inner) and is false
\* whenever inner touches the boundary of outer on some axis.
\* (checked under SpecBox)
C21_ContainReflexive ==
    /\ (call.op = "Contain" /\ ArgA = ArgB) => call.result
    /\ (call.op = "ContainStrict") =>
          /\ (ArgA = ArgB) => ~call.result
          /\ call.result => Contain(ArgA, ArgB)
          /\ TouchesBoundary(ArgA, ArgB) => ~call.result

\* ContainStrict was true of a zero-volume inner box, and (second conjunct
\* of the claim) there are degenerate boxes A to call it with
C21_Witness ==
    /\ call.op = "ContainStrict" /\ call.result
    /\ ArgB.min = ArgB.max

\* C22: ContainInOrthant(self, other) is true iff on every axis other lies
\* strictly inside one half of self: self.min < other.min and other.max < mid,
\* or mid < other.min and other.max < self.max, mid = (self.min + self.max) / 2;
\* a box touching self's boundary or the midpoint on some axis is rejected.
\* (checked under SpecBox)
C22_InOrthantIff ==
    (call.op = "ContainInOrthant") =>
        LET s == SelfBox
            o == OtherBox
            mid(i) == (s.min[i] + s.max[i]) \div 2
        IN  /\ (s.min[1] + s.max[1]) % 2 = 0 /\ (s.min[2] + s.max[2]) % 2 = 0
            /\ call.result <=>
                  \A i \in Axes :
                      \/ (s.min[i] < o.min[i] /\ o.max[i] < mid(i))
                      \/ (mid(i) < o.min[i] /\ o.max[i] < s.max[i])
            /\ (\E i \in Axes : \/ o.min[i] \in {s.min[i], s.max[i], mid(i)}
                                 \/ o.max[i] \in {s.min[i], s.max[i], mid(i)})
                  => ~call.result

\* other lies in the low half of self on one axis and in the high half on
\* the other
C22_Witness ==
    /\ call.op = "ContainInOrthant" /\ call.result
    /\ 2 * OtherBox.max[1] < SelfBox.min[1] + SelfBox.max[1]
    /\ 2 * OtherBox.min[2] > SelfBox.min[2] + SelfBox.max[2]

\* the orthant of a box on the sides h (Low or High per axis): the box
\* halved at its midpoint on every axis
OrthantOf(box, h) ==
    [min |-> [i \in Axes |-> IF h[i] = Low THEN box.min[i]
                             ELSE (box.min[i] + box.max[i]) \div 2],
     max |-> [i \in Axes |-> IF h[i] = Low THEN (box.min[i] + box.max[i]) \div 2
                             ELSE box.max[i]]]

\* C23: ContainOrthant(self, other) is true iff self contains at least one
\* of the 2^D orthants of other.
C23_OrthantIff ==
    (call.op = "ContainOrthant") =>
        (call.result <=>
            \E h \in [Axes -> {Low, High}] : Contain(SelfBox, OrthantOf(OtherBox, h)))

\* the build configurations in which the documentation has the checks run
ChecksWanted(b) == b.checks = "1" \/ (b.checks = "undefined" /\ ~b.ndebug)

\* C24: the precondition checks run iff ORTHTREE_DEBUG_CHECKS says so: defined
\* as 1 they run even with NDEBUG, defined as 0 they are skipped even without
\* NDEBUG, left undefined they run exactly when NDEBUG is not defined.  Where
\* they run no box outside the region is ever registered (Add's check stops
\* the call); where they are skipped no call is ever stopped by a check.
C24_ChecksFollowMacro ==
    /\ ChecksWanted(build) =>
          \A v \in DOMAIN m_all_values : Contain(TreeArea(Tree), m_all_values[v])
    /\ ~ChecksWanted(build) => Alive

\* C25: the README's Basic Usage program is a valid use of the API: each of
\* its Add calls gives a box contained in the tree's region, so with the
\* debug checks enabled no call of the program is stopped by a check.
\* (checked under SpecReadme)
C25_ReadmeRuns == DEBUG_CHECKS => Alive

\* the nodes of the tree that have a subdivision
SplitNodes == {n \in NodesOf(m_root) : ~IsNull(n.m_sub_nodes)}

\* C26: in exclusive mode, in every state reached by Add, Del and Change, the
\* bucket of a split node holds only values whose box cannot fall deeper
\* (ContainInOrthant(node.area, box) is false), and every value of its subtree
\* whose box can fall deeper is stored inside the subdivision.
\* (checked under SpecADC)
C26_SplitBucketStays ==
    Alive =>
        \A n \in SplitNodes :
            /\ \A v \in DOMAIN n.m_bucket :
                  /\ ~ContainInOrthant(n.m_area, n.m_bucket[v])
                  /\ ~CanFallDeeper(n, n.m_bucket[v])
            /\ \A v \in DOMAIN m_all_values :
                  (NodeHolds(n, v) > 0 /\ ContainInOrthant(n.m_area, m_all_values[v]))
                      => /\ v \notin DOMAIN n.m_bucket
                         /\ BiSectionHolds(n.m_sub_nodes, DIM, v) > 0

\* a split root keeps one value in its bucket and has another one below
C26_Witness ==
    /\ Alive /\ RootSplit
    /\ m_root.m_bucket # EmptyMap
    /\ \E v \in DOMAIN m_all_values : BiSectionHolds(m_root.m_sub_nodes, DIM, v) > 0

\* the registered values stored in the subtree of node c
HeldBy(c) == {v \in DOMAIN m_all_values : NodeHolds(c, v) > 0}

\* C27: in exclusive mode, in every reachable state, two values stored in the
\* subtrees of two different children of the same subdivision have boxes that
\* do not intersect, not even by touching; FindIntersected(), which tests no
\* pair across children, reports every intersecting pair.
\* (checked under SpecBuild: with and without the debug checks)
C27_ChildrenDisjoint ==
    Alive =>
        /\ \A n \in SplitNodes :
              \A c1 \in Children(n), c2 \in Children(n) :
                  (c1 # c2) =>
                      \A v1 \in HeldBy(c1), v2 \in HeldBy(c2) :
                          /\ v1 # v2
                          /\ ~Intersect(m_all_values[v1], m_all_values[v2])
        /\ \A p \in DOMAIN BrutePairs(m_all_values) : NodePairCount(m_root, p) > 0

\* values in two different children of the root
C27_Witness ==
    /\ Alive /\ RootSplit
    /\ \E c1 \in Children(m_root), c2 \in Children(m_root) :
          c1 # c2 /\ HeldBy(c1) # {} /\ HeldBy(c2) # {}

\* the children of node n that a call on its subdivision changed, given the
\* subdivision the call left
Reached(n, sec) == SecNodes(sec, DIM) \ Children(n)

\* C28: in exclusive mode every Add or Del that a node passes to its
\* subdivision (the box can fall deeper) reaches exactly one of the 2^D
\* children: on each axis exactly one of the tests box.min <= mid and
\* box.max >= mid holds; Del reaches the child in which Add stored the value.
\* (checked under SpecADC, for every split node of every reachable tree)
C28_OneChild ==
    Alive =>
        \A n \in SplitNodes :
            /\ \A box \in Boxes :
                  CanFallDeeper(n, box) =>
                      /\ \A i \in Axes :
                            (box.min[i] <= PntMid(n.m_area, i))
                                # (box.max[i] >= PntMid(n.m_area, i))
                      /\ \A v \in Values \ DOMAIN m_all_values :
                            \A r \in BiSectionAdd(n.m_sub_nodes, DIM, v, box, n.m_area) :
                                /\ Cardinality(Reached(n, r.node)) = 1
                                /\ \A c \in Reached(n, r.node) : NodeHolds(c, v) = 1
            /\ \A v \in DOMAIN m_all_values :
                  (BiSectionHolds(n.m_sub_nodes, DIM, v) > 0) =>
                      LET box == m_all_values[v]
                          r == BiSectionDel(n.m_sub_nodes, DIM, v, box, n.m_area)
                      IN  /\ CanFallDeeper(n, box)
                          /\ r.errs = {}
                          /\ BiSectionHolds(r.node, DIM, v) = 0
                          /\ Cardinality(Reached(n, r.node)) = 1
                          /\ \A c \in Reached(n, r.node) :
                                \E old \in Children(n) :
                                    /\ old.m_area = c.m_area
                                    /\ NodeHolds(old, v) = 1

\* after a Del the root is still split and holds values in its subdivision
C28_Witness ==
    /\ Alive /\ RootSplit /\ last = "Del"
    /\ \E v \in DOMAIN m_all_values : BiSectionHolds(m_root.m_sub_nodes, DIM, v) > 0
    /\ \E box \in Boxes : CanFallDeeper(m_root, box)

\* the number of values stored in the subtree of node n
SubtreeCount(n) == SumBuckets(NodesOf(n))

\* C29: in every state reached by Add, Del and Change a node has a
\* subdivision only if more than GROUP_COUNT values are stored in its subtree.
\* An Add creates a subdivision only when it finds the bucket holding at least
\* GROUP_COUNT entries and its box can fall deeper; a Del that leaves the node
\* with at most GROUP_COUNT values discards the subdivision and leaves every
\* remaining value of the subtree in the node's own bucket.
\* (checked under SpecADC, for every node of every reachable tree)
C29_Hysteresis ==
    Alive =>
        \A n \in NodesOf(m_root) :
            /\ ~IsNull(n.m_sub_nodes) => SubtreeCount(n) > n.gc
            /\ IsNull(n.m_sub_nodes) =>
                  \A v \in Values \ DOMAIN m_all_values, box \in Boxes :
                      \A r \in NodeAdd(n, v, box) :
                          ~IsNull(r.node.m_sub_nodes) =>
                              /\ Cardinality(DOMAIN n.m_bucket) >= n.gc
                              /\ CanFallDeeper(n, box)
            /\ \A v \in HeldBy(n) :
                  LET r == NodeDel(n, v, m_all_values[v])
                  IN  (SubtreeCount(n) - 1 <= n.gc) =>
                          /\ IsNull(r.node.m_sub_nodes)
                          /\ DOMAIN r.node.m_bucket = HeldBy(n) \ {v}
                          /\ \A w \in DOMAIN r.node.m_bucket :
                                r.node.m_bucket[w] = m_all_values[w]

\* a Del has just merged the subdivision of the root: GROUP_COUNT values are
\* left, all in the root's bucket, one of which could fall deeper
C29_Witness ==
    /\ Alive /\ last = "Del" /\ ~RootSplit
    /\ Cardinality(DOMAIN m_root.m_bucket) = GROUP_COUNT
    /\ \E v \in DOMAIN m_root.m_bucket : CanFallDeeper(m_root, m_root.m_bucket[v])

\* C30: for every node, in every state reached by Add, Del, Change and Clear,
\* total_count (m_values_count) equals the number of values stored in the
\* node's subtree; it is 0 immediately after Clear.
\* (checked under Spec)
C30_CountIsStored ==
    Alive =>
        /\ \A n \in NodesOf(m_root) : n.m_values_count = SubtreeCount(n)
        /\ (last = "Clear") => m_root.m_values_count = 0

\* the (value, box) pairs stored in the buckets of the subtree of node n
EntriesOf(n) ==
    UNION {{<<v, c.m_bucket[v]>> : v \in DOMAIN c.m_bucket} : c \in NodesOf(n)}
BucketEntries(n) == {<<v, n.m_bucket[v]>> : v \in DOMAIN n.m_bucket}

\* C31: splitting and collapsing conserve the stored content.  When an Add
\* creates a subdivision, exactly the bucket entries for which CanFallDeeper
\* holds move into it and the others stay in the bucket; when a Del collapses
\* a subdivision, every pair stored below moves into the node's bucket.  In
\* both cases the pairs stored in the node's subtree change only by the one
\* value added or deleted.
\* (checked under SpecADC, for every node of every reachable tree)
C31_SplitMergeConserve ==
    Alive =>
        \A n \in NodesOf(m_root) :
            /\ IsNull(n.m_sub_nodes) =>
                  \A v \in Values \ DOMAIN m_all_values, box \in Boxes :
                      \A r \in NodeAdd(n, v, box) :
                          ~IsNull(r.node.m_sub_nodes) =>
                              /\ BucketEntries(r.node) =
                                    {e \in BucketEntries(n) : ~CanFallDeeper(n, e[2])}
                              /\ EntriesOf(r.node) = EntriesOf(n) \cup {<<v, box>>}
            /\ ~IsNull(n.m_sub_nodes) =>
                  \A v \in HeldBy(n) :
                      LET r == NodeDel(n, v, m_all_values[v])
                      IN  /\ EntriesOf(r.node) = EntriesOf(n) \ {<<v, m_all_values[v]>>}
                          /\ IsNull(r.node.m_sub_nodes) =>
                                BucketEntries(r.node) =
                                    EntriesOf(n) \ {<<v, m_all_values[v]>>}

\* an Add has just split the root: one entry stayed in the bucket
C31_Witness ==
    /\ Alive /\ last = "Add" /\ RootSplit
    /\ m_root.m_values_count = GROUP_COUNT + 1
    /\ m_root.m_bucket # EmptyMap

\* the child node of a subdivision on the sides h (Low or High per axis)
RECURSIVE SecAt(_, _, _)
SecAt(sec, X, h) == IF X = 1 THEN sec[h[1]] ELSE SecAt(sec[h[X]], X - 1, h)
Sides == [Axes -> {Low, High}]

\* C32: a split creates exactly 2^D child nodes, at the parent's level plus 1,
\* whose regions are the 2^D orthants of the parent's region: on every axis a
\* child's extent is [min, mid] or [mid, max], mid = (min + max) / 2, every
\* low/high combination occurs exactly once, the children together cover the
\* parent's region and overlap only on shared boundaries.
\* (checked under SpecADC, for every split node of every reachable tree)
C32_ChildrenAreOrthants ==
    Alive =>
        \A n \in SplitNodes :
            /\ Cardinality(Children(n)) = 2 ^ DIM
            /\ \A i \in Axes : (n.m_area.min[i] + n.m_area.max[i]) % 2 = 0
            /\ \A h \in Sides :
                  LET c == SecAt(n.m_sub_nodes, DIM, h)
                  IN  /\ c.m_level = n.m_level + 1
                      /\ c.m_area = OrthantOf(n.m_area, h)
                      /\ \A i \in Axes :
                            /\ c.m_area.min[i] =
                                  IF h[i] = Low THEN n.m_area.min[i]
                                  ELSE (n.m_area.min[i] + n.m_area.max[i]) \div 2
                            /\ c.m_area.max[i] =
                                  IF h[i] = High THEN n.m_area.max[i]
                                  ELSE (n.m_area.min[i] + n.m_area.max[i]) \div 2
            /\ \A p \in [Axes -> 0..RegionHi] :
                  Contain(n.m_area, PointBox(p)) =>
                      \E c \in Children(n) : Contain(c.m_area, PointBox(p))
            /\ \A c1 \in Children(n), c2 \in Children(n) :
                  (c1 # c2) =>
                      LET x == Intersection(c1.m_area, c2.m_area)
                      IN  x.has_value =>
                              \E i \in Axes : x.value.min[i] = x.value.max[i]

\* the root is split and so is one of its children
C32_Witness ==
    /\ Alive /\ RootSplit
    /\ \E c \in Children(m_root) : ~IsNull(c.m_sub_nodes)

\* the failed assertions fail of a Tree call with box are none, or only the
\* root's own "Out of area" for a box that touches the region's boundary
OnlyRootArea(fail, box) ==
    /\ fail \subseteq {"Out of area"}
    /\ (fail # {}) => ~ContainStrict(TreeArea(Tree), box)

\* C33: in exclusive mode, for every sequence of precondition-respecting Add,
\* Del and Change calls, no internal structural assertion fires: no node below
\* the root receives in Add a box that is not strictly inside its region
\* ("Out of area"), no collapse leaves more than GROUP_COUNT entries in the
\* bucket, a Del that misses the bucket finds a subdivision, and gathering a
\* collapsing subtree meets no duplicate key.
\* (checked under SpecADC: in every state reached by calls that returned, for
\* every next call that respects the preconditions)
C33_NoStructuralAssert ==
    Alive =>
        /\ \A v \in Values, box \in Boxes :
              Contain(TreeArea(Tree), box) =>
                  IF TreeContains(Tree, v)
                  THEN \A o \in TreeChange(Tree, v, box) : OnlyRootArea(o.fail, box)
                  ELSE \A o \in TreeAdd(Tree, v, box) : OnlyRootArea(o.fail, box)
        /\ \A v \in DOMAIN m_all_values : TreeDel(Tree, v).fail = {}
        /\ \A n \in SplitNodes, box \in Boxes :
              CanFallDeeper(n, box) =>
                  \A v \in Values \ DOMAIN m_all_values :
                      \A r \in BiSectionAdd(n.m_sub_nodes, DIM, v, box, n.m_area) :
                          r.errs = {}

\* a Change has returned on a tree whose root and one of its children are split
C33_Witness ==
    /\ Alive /\ last = "Change" /\ RootSplit
    /\ \E c \in Children(m_root) : ~IsNull(c.m_sub_nodes)

\* C34: the tree's SHARED setting governs every node: the child nodes created
\* by a split apply the same placement discipline (CanFallDeeper test and Add
\* precondition) as the root.
\* (checked under SpecShared, where SHARED is true)
C34_ChildrenShare ==
    \A n \in NodesOf(m_root) :
        /\ n.share = SHARED
        /\ \A box \in Boxes :
              CanFallDeeper(n, box) =
                  (IF SHARED THEN ~ContainOrthant(box, n.m_area)
                   ELSE ContainInOrthant(n.m_area, box))

\* C35: with the debug checks enabled Change(v, b) is all-or-nothing: either
\* it completes with v registered under b, or it is rejected with v still
\* registered and stored under its previous box and the rest of the tree
\* unchanged; no rejection occurs after v has been deleted.
\* (checked under SpecADC, of every Change that can be called on a reachable
\* tree)
C35_ChangeAllOrNothing ==
    (Alive /\ DEBUG_CHECKS) =>
        \A v \in DOMAIN m_all_values, b \in Boxes :
            \A o \in TreeChange(Tree, v, b) :
                IF o.fail = {}
                THEN TreeContains(o.t, v) /\ TreeGetBox(o.t, v) = b
                ELSE o.t = Tree

\* every float point of an area under SpecUlp, as a zero-volume box
UlpPoints(area) ==
    {PointBox(Pt(x, y)) : x \in area.min[1]..area.max[1],
                          y \in area.min[2]..area.max[2]}

\* the number of levels a subtree rooted at node n can get, whatever is added:
\* Node::Add subdivides n only for a box that can fall deeper, and a box that
\* can fall deeper contains a point that can
RECURSIVE UlpLevels(_)
UlpLevels(n) ==
    IF \A b \in UlpPoints(n.m_area) : ~CanFallDeeper(n, b) THEN 1
    ELSE LET below == {UlpLevels(c) :
                          c \in SecNodes(BiSection(n.m_area, n.m_level + 1, DIM, n.gc), DIM)}
         IN  1 + (CHOOSE l \in below : \A k \in below : k <= l)
UlpLevelBound == UlpLevels(Node(UlpRegion, 1, FALSE, 1))

\* area c is narrower than area a on every axis
Narrower(c, a) ==
    \A i \in Axes : c.max[i] - c.min[i] < a.max[i] - a.min[i]

\* the level of the deepest node of a tree
Deepest(t) == CHOOSE l \in {n.m_level : n \in NodesOf(t.m_root)} :
                  \A n \in NodesOf(t.m_root) : n.m_level <= l

\* the registered values whose box is exactly box
Coincident(box) == {v \in DOMAIN m_all_values : m_all_values[v] = box}

OthersKept(t, t2, v) ==
    \A w \in (DOMAIN t.m_all_values) \ {v} :
        /\ TreeContains(t2, w)
        /\ TreeGetBox(t2, w) = TreeGetBox(t, w)
        /\ NodeHolds(t2.m_root, w) = 1
        /\ NodeStored(t2.m_root, <<w, TreeGetBox(t, w)>>) = 1

\* C37: Add(v, b) and Del(v) affect only v: for every other registered value
\* w, Contains(w), GetBox(w) and the box stored for w in the node tree are
\* unchanged, also when the call splits or collapses a node and moves w
\* between buckets.
\* (checked under SpecADC, of every Add and Del that returns on a reachable
\* tree)
C37_OthersUntouched ==
    Alive =>
        /\ \A v \in Values \ DOMAIN m_all_values, b \in Boxes :
              \A o \in TreeAdd(Tree, v, b) :
                  (o.fail = {}) => OthersKept(Tree, o.t, v)
        /\ \A v \in DOMAIN m_all_values :
              LET o == TreeDel(Tree, v)
              IN  (o.fail = {}) => OthersKept(Tree, o.t, v)

\* an Add has just split the root and moved an older value one level down
C37_Witness ==
    /\ Alive /\ last = "Add" /\ RootSplit
    /\ Cardinality(DOMAIN m_all_values) = GROUP_COUNT + 1
    /\ \A w \in DOMAIN m_all_values : NodeDepth(m_root, w) >= 2

\* C38: Add(v, b) immediately followed by Del(v) restores the tree: the
\* registry, the results of all queries and the node structure TraverseDeep
\* reports (which nodes exist, which node's bucket holds each value) are the
\* same as before the Add.
\* (checked under SpecADC, of every Add that returns on a reachable tree)
C38_AddDelRestores ==
    Alive =>
        \A v \in Values \ DOMAIN m_all_values, b \in Boxes :
            \A o \in TreeAdd(Tree, v, b) :
                (o.fail = {}) =>
                    LET d == TreeDel(o.t, v)
                    IN  /\ d.fail = {}
                        /\ Observe(d.t) = Observe(Tree)

\* C39: Node.FitSection(box) returns true exactly when, on every axis, the
\* box lies on one side of the midpoint of the node's region (box.max <= mid
\* or box.min >= mid, mid = (area.min + area.max) / 2) and false when the box
\* straddles a midpoint, for node regions at any position.
\* (checked under SpecBox)
C39_FitSectionIff ==
    (call.op = "FitSection") =>
        (call.result <=>
            \A i \in Axes :
                LET mid == (SelfBox.min[i] + SelfBox.max[i]) \div 2
                IN  (OtherBox.max[i] <= mid) \/ (OtherBox.min[i] >= mid))

====
